---- MODULE Spec2Model ----
(***************************************************************************)
(* Check Character Calculator (src/js/functions.js).                       *)
(*                                                                         *)
(* A page with one text input (#location) and two output fields            *)
(* (#phonetic, #check).  Every edit of the input runs filterLocation on    *)
(* the field's content: the content is filtered to a location code, the    *)
(* two output fields are rewritten, and the filtered code is written back  *)
(* to the input.  JavaScript strings are modelled as TLA+ strings; the     *)
(* JavaScript built-ins the script uses (substr, charAt, charCodeAt,       *)
(* toUpperCase, isNaN, $.trim, String.fromCharCode) are modelled by what   *)
(* they do on the characters of the model: digits, upper and lower case    *)
(* letters, '+', '-', ' ' and '!'.                                         *)
(***************************************************************************)
EXTENDS Integers, Sequences, FiniteSets, TLC

VARIABLES
    stage,        \* "page": the script has not run yet; "ready": it has
    locationVal,  \* value of the #location input
    phonetic,     \* text of the #phonetic field
    check,        \* text of the #check field
    special,      \* what handleSpecialLocation returned in the last event
    pc,           \* direct calls of a function: "idle", "call", "done"
    arg,          \* argument of the direct call
    arg2,         \* argument of a second call, compared with the first
    ret,          \* result of the direct call
    ret2          \* result of the second call

vars == <<stage, locationVal, phonetic, check, special, pc, arg, arg2, ret, ret2>>
pageVars == <<stage, locationVal, phonetic, check, special>>
callVars == <<pc, arg, arg2, ret, ret2>>

(***************************************************************************)
(* Characters                                                              *)
(***************************************************************************)
Digits == "0123456789"
Upper == "ABCDEFGHIJKLMNOPQRSTUVWXYZ"
Lower == "abcdefghijklmnopqrstuvwxyz"

\* The characters of a string, as a set of one-character strings.
CharsOf(str) == {SubSeq(str, k, k) : k \in 1..Len(str)}

DigitChars == CharsOf(Digits)
UpperChars == CharsOf(Upper)
LowerChars == CharsOf(Lower)
OtherChars == {" ", "!", "+", "-"}

IsDigit(c) == c \in DigitChars
IsUpper(c) == c \in UpperChars
IsLower(c) == c \in LowerChars

\* The position (from 1) of each character of str.
IndexIn(str) == [c \in CharsOf(str) |-> CHOOSE k \in 1..Len(str) : SubSeq(str, k, k) = c]

\* UTF-16 code unit of each character of the model.
CodeTable ==
    [c \in DigitChars \cup UpperChars \cup LowerChars \cup OtherChars |->
        CASE c \in DigitChars -> 47 + IndexIn(Digits)[c]
          [] c \in UpperChars -> 64 + IndexIn(Upper)[c]
          [] c \in LowerChars -> 96 + IndexIn(Lower)[c]
          [] c = " " -> 32
          [] c = "!" -> 33
          [] c = "+" -> 43
          [] c = "-" -> 45]

CharCode(c) == CodeTable[c]

\* String.fromCharCode on the codes of the model's characters.
fromCharCode(n) == CHOOSE c \in DOMAIN CodeTable : CodeTable[c] = n

\* The upper case form of each character of the model.
UpperTable ==
    [c \in DOMAIN CodeTable |->
        IF c \in LowerChars THEN fromCharCode(CodeTable[c] - 32) ELSE c]

\* The digit a digit character stands for.
DigitTable == [c \in DigitChars |-> CodeTable[c] - 48]

(***************************************************************************)
(* JavaScript string built-ins                                             *)
(***************************************************************************)
Min(a, b) == IF a < b THEN a ELSE b
Max(a, b) == IF a > b THEN a ELSE b

\* s.substr(start, length): 0-based start, a negative start counts from the
\* end, the result is cut at the end of s.
substr(s, start, length) ==
    LET from == IF start < 0 THEN Max(Len(s) + start, 0) ELSE Min(start, Len(s))
        n == Min(Max(length, 0), Len(s) - from)
    IN  IF n <= 0 THEN "" ELSE SubSeq(s, from + 1, from + n)

\* s.substr(start): to the end of s.
substrFrom(s, start) == substr(s, start, Len(s))

\* s.charAt(i): "" when i is out of range.
charAt(s, i) == IF i >= 0 /\ i < Len(s) THEN SubSeq(s, i + 1, i + 1) ELSE ""

\* s.charCodeAt(i), i in range.
charCodeAt(s, i) == CharCode(charAt(s, i))

upperChar(c) == UpperTable[c]

RECURSIVE toUpperCase(_)
toUpperCase(s) ==
    IF s = "" THEN "" ELSE upperChar(SubSeq(s, 1, 1)) \o toUpperCase(Tail(s))

\* isNaN(c) for a string of at most one character: Number("") and Number(" ")
\* are 0, Number of a digit is the digit, anything else is NaN.
isNaN(c) == ~(c = "" \/ c = " " \/ IsDigit(c))

RECURSIVE trimLeft(_)
trimLeft(s) == IF s # "" /\ SubSeq(s, 1, 1) = " " THEN trimLeft(Tail(s)) ELSE s

RECURSIVE trimRight(_)
trimRight(s) ==
    IF s # "" /\ SubSeq(s, Len(s), Len(s)) = " "
    THEN trimRight(SubSeq(s, 1, Len(s) - 1)) ELSE s

\* $.trim(s) and s.trim(): leading and trailing white space removed.
trim(s) == trimRight(trimLeft(s))

(***************************************************************************)
(* The phonetic tables                                                     *)
(***************************************************************************)
letters == <<"ALPHA", "BRAVO", "CHARLIE", "DELTA", "ECHO", "FOXTROT", "GOLF", "HOTEL", "INDIA", "JULIET",
    "KILO", "LIMA", "MIKE", "NOVEMBER", "OSCAR", "PAPA", "QUEBEC", "ROMEO", "SIERRA", "TANGO", "UNIFORM", "VICTOR",
    "WHISKEY", "X-RAY", "YANKEE", "ZULU">>

numbers == <<"ZERO", "ONE", "TWO", "THREE", "FOUR", "FIVE", "SIX", "SEVEN", "EIGHT", "NINE">>

\* letters[k], 0-based; a missing element is undefined, which the only
\* callers turn into the text "undefined" by string concatenation.
lettersAt(k) == IF k >= 0 /\ k < Len(letters) THEN letters[k + 1] ELSE "undefined"

\* numbers[c] for a string key c of at most one character.
numbersAt(c) == IF IsDigit(c) THEN numbers[DigitTable[c] + 1] ELSE "undefined"

(***************************************************************************)
(* convertToWord, getPhonetic, getCheck                                    *)
(***************************************************************************)
\* Mutant of convertToWord: the letter index is taken from 'A' = 64.
convertToWordFrom64(character) ==
    LET c == substr(character, 0, 1)
    IN  IF ~isNaN(c) THEN numbersAt(c)
        ELSE lettersAt(charCodeAt(toUpperCase(c), 0) - 64)

convertToWord(character) ==
    LET c == substr(character, 0, 1)
    IN  IF ~isNaN(c) THEN numbersAt(c)
        ELSE lettersAt(charCodeAt(toUpperCase(c), 0) - 65)

\* The loop of getPhonetic from index i on, result being the text so far.
RECURSIVE getPhoneticLoop(_, _, _)
getPhoneticLoop(location, i, result) ==
    IF ~(i < Len(location)) THEN result
    ELSE LET piece == substr(location, i, i + 1)
             r1 == IF piece # "+" /\ piece # "+"
                   THEN result \o convertToWord(toUpperCase(piece))
                   ELSE result
             r2 == IF i # Len(location) - 1 THEN r1 \o " " ELSE r1
         IN  getPhoneticLoop(location, i + 1, r2)

getPhonetic(location) == getPhoneticLoop(location, 0, "")

\* Mutant of getCheckLoop: every position has the weight 7.
RECURSIVE getCheckLoopWeight7(_, _, _)
getCheckLoopWeight7(location, j, i) ==
    IF ~(j < 6) THEN i
    ELSE getCheckLoopWeight7(location, j + 1, i + charCodeAt(location, j % 4) * 7)

\* Mutant of getCheckLoop: the loop stops one step early, so the character at
\* index 1 is left out of the sum.
RECURSIVE getCheckLoopShort(_, _, _)
getCheckLoopShort(location, j, i) ==
    IF ~(j < 5) THEN i
    ELSE getCheckLoopShort(location, j + 1,
                           i + charCodeAt(location, j % 4) * ((j % 3) * 2 + 3))

\* The loop of getCheck from j on, i being the sum so far.
RECURSIVE getCheckLoop(_, _, _)
getCheckLoop(location, j, i) ==
    IF ~(j < 6) THEN i
    ELSE getCheckLoop(location, j + 1,
                      i + charCodeAt(location, j % 4) * ((j % 3) * 2 + 3))

\* Mutant of getCheck: only locations shorter than 4 characters are refused.
getCheckAtLeast4(location) ==
    IF Len(location) < 4 THEN "NONE"
    ELSE convertToWord(fromCharCode((getCheckLoop(location, 2, 0) % 26) + 65))

getCheck(location) ==
    IF Len(location) # 4 THEN "NONE"
    ELSE convertToWord(fromCharCode((getCheckLoop(location, 2, 0) % 26) + 65))

(***************************************************************************)
(* handleSpecialLocation                                                   *)
(*                                                                         *)
(* The function reads and writes the two output fields, so the model       *)
(* threads them through: ph and ck are the fields' texts when the call     *)
(* starts, the result holds the value returned (undefined is FALSE) and    *)
(* the fields' texts when it returns.  Each rule's body is an operator of  *)
(* its own; familyRules is the chain of if statements that tries them.     *)
(***************************************************************************)
\* Mutant of sobRule: the rule returns true without writing the phonetic field.
sobRuleKeepsPhonetic(location, ph, ck) ==
    [ret |-> TRUE, ph |-> ph, ck |-> "SIERRA"]

sobRule(location, ph, ck) ==
    [ret |-> TRUE, ph |-> "SOB", ck |-> "SIERRA"]

dpaRule(location, ph, ck) ==
    [ret |-> TRUE, ph |-> "DPA", ck |-> "VICTOR"]

retsRule(location, ph, ck) ==
    [ret |-> TRUE, ph |-> "RETURNS", ck |-> getCheck(location)]

\* Mutant of cashOfficeRule: the remainder is taken from index 1.
cashOfficeRuleFromIndex1(location, ph, ck) ==
    [ret |-> TRUE,
     ph |-> trim("CASH OFFICE " \o getPhonetic(substr(location, 1, 4))),
     ck |-> getCheck(location)]

cashOfficeRule(location, ph, ck) ==
    [ret |-> TRUE,
     ph |-> trim("CASH OFFICE " \o getPhonetic(substr(location, 2, 4))),
     ck |-> getCheck(location)]

collectionPointRule(location, ph, ck) ==
    [ret |-> TRUE,
     ph |-> trim("COLLECTION POINT " \o getPhonetic(substr(location, 2, 4))),
     ck |-> getCheck(location)]

jewelleryRule(location, ph, ck) ==
    [ret |-> TRUE,
     ph |-> trim("JEWELLERY " \o getPhonetic(substr(location, 1, 4))),
     ck |-> getCheck(location)]

securityRule(location, ph, ck) ==
    [ret |-> TRUE,
     ph |-> trim("SECURITY " \o getPhonetic(substr(location, 1, 4))),
     ck |-> getCheck(location)]

linbinRule(location, ph, ck) ==
    [ret |-> TRUE,
     ph |-> trim(getPhonetic(substr(location, 1, 2)) \o " LINBIN " \o
                 getPhonetic(substr(location, 3, 4))),
     ck |-> getCheck(location)]

bulkRule(location, ph, ck) ==
    [ret |-> TRUE,
     ph |-> trim(getPhonetic(substr(location, 1, 2)) \o " BULK " \o
                 trim(getPhonetic(substr(location, 3, 4)))),
     ck |-> getCheck(location)]

\* Mutant of familyRules: the Security prefix is tried before the exact codes.
familyRulesSecurityFirst(location, ph, ck) ==
    IF substr(location, 0, 1) = "S" THEN securityRule(location, ph, ck)
    ELSE IF location = "SOB" THEN sobRule(location, ph, ck)
    ELSE IF location = "DPA" THEN dpaRule(location, ph, ck)
    ELSE IF location = "RETS" THEN retsRule(location, ph, ck)
    ELSE IF substr(location, 0, 2) = "CA" THEN cashOfficeRule(location, ph, ck)
    ELSE IF substr(location, 0, 2) = "CP" THEN collectionPointRule(location, ph, ck)
    ELSE IF substr(location, 0, 1) = "J" THEN jewelleryRule(location, ph, ck)
    ELSE IF substr(location, 0, 1) = "L" THEN linbinRule(location, ph, ck)
    ELSE IF substr(location, 0, 1) = "Z" THEN bulkRule(location, ph, ck)
    ELSE [ret |-> FALSE, ph |-> ph, ck |-> ck]

\* The rules after the suffix rule, in the order of the source; falling off
\* the end returns undefined and writes nothing.
familyRules(location, ph, ck) ==
    IF location = "SOB" THEN sobRule(location, ph, ck)
    ELSE IF location = "DPA" THEN dpaRule(location, ph, ck)
    ELSE IF location = "RETS" THEN retsRule(location, ph, ck)
    ELSE IF substr(location, 0, 2) = "CA" THEN cashOfficeRule(location, ph, ck)
    ELSE IF substr(location, 0, 2) = "CP" THEN collectionPointRule(location, ph, ck)
    ELSE IF substr(location, 0, 1) = "J" THEN jewelleryRule(location, ph, ck)
    ELSE IF substr(location, 0, 1) = "S" THEN securityRule(location, ph, ck)
    ELSE IF substr(location, 0, 1) = "L" THEN linbinRule(location, ph, ck)
    ELSE IF substr(location, 0, 1) = "Z" THEN bulkRule(location, ph, ck)
    ELSE [ret |-> FALSE, ph |-> ph, ck |-> ck]

\* The switch on the last character of a location that ends in '+' or '-'.
suffixPrefix(location) ==
    IF substrFrom(location, -1) = "+" THEN "AFTER " ELSE "BEFORE "

\* The location without its last character.
withoutSuffix(location) == substr(location, 0, Len(location) - 1)

\* Mutant of suffixCheck: the check is computed on the stripped prefix.
suffixCheckOfPrefix(location) == getCheck(withoutSuffix(location))

\* The check field of a location that ends in '+' or '-'.
suffixCheck(location) == getCheck(location)

\* The suffix rule once the recursive call on withoutSuffix(location) has
\* returned inner: inner.ph is what phoneticDiv.text() then reads.
suffixRule(location, inner) ==
    [ret |-> TRUE,
     ph |-> IF inner.ret THEN suffixPrefix(location) \o inner.ph
            ELSE suffixPrefix(location) \o getPhonetic(withoutSuffix(location)),
     ck |-> suffixCheck(location)]

RECURSIVE handleSpecialLocation(_, _, _)
handleSpecialLocation(location, ph, ck) ==
    IF substrFrom(location, -1) = "+" \/ substrFrom(location, -1) = "-"
    THEN suffixRule(location, handleSpecialLocation(withoutSuffix(location), ph, ck))
    ELSE familyRules(location, ph, ck)

(***************************************************************************)
(* filterLocation                                                          *)
(***************************************************************************)
\* /^[0-9A-Za-z]+$/ on one character.
isAlphanumeric(c) == IsDigit(c) \/ IsUpper(c) \/ IsLower(c)

\* /^[+-]+$/ on one character.
isPlusMinus(c) == c = "+" \/ c = "-"

\* The loop of filterLocation from index i on, filtered being the text so far.
RECURSIVE filterLoop(_, _, _)
filterLoop(input, i, filtered) ==
    IF ~(i < Len(input) /\ i < 4) THEN filtered
    ELSE filterLoop(input, i + 1,
                    IF isAlphanumeric(charAt(input, i))
                       \/ (i = 3 /\ isPlusMinus(charAt(input, i)))
                    THEN filtered \o charAt(input, i)
                    ELSE filtered)

\* Mutant of genericOutputs: an empty code is rendered like any other.
genericOutputsNoNone(filtered) ==
    [special |-> FALSE,
     ph |-> getPhonetic(toUpperCase(filtered)),
     ck |-> getCheck(toUpperCase(filtered))]

\* What filterLocation writes when handleSpecialLocation returned undefined.
genericOutputs(filtered) ==
    [special |-> FALSE,
     ph |-> IF Len(filtered) = 0 THEN "NONE" ELSE getPhonetic(toUpperCase(filtered)),
     ck |-> getCheck(toUpperCase(filtered))]

\* The if statement of filterLocation once handleSpecialLocation has returned
\* hsl: what it returned, and the output fields afterwards.
afterSpecial(filtered, hsl) ==
    IF ~hsl.ret THEN genericOutputs(filtered)
    ELSE [special |-> TRUE, ph |-> hsl.ph, ck |-> hsl.ck]

\* The second half of filterLocation, the output fields showing ph and ck.
classify(filtered, ph, ck) ==
    afterSpecial(filtered, handleSpecialLocation(toUpperCase(filtered), ph, ck))

\* filterLocation(input): the value returned, and the effects on the fields.
filterLocation(input, ph, ck) ==
    [value |-> filterLoop(input, 0, ""),
     out |-> classify(filterLoop(input, 0, ""), ph, ck)]

\* The input event's handler, the field holding content.
OnInput(content) ==
    \E r \in {filterLocation(content, phonetic, check)} :
        /\ locationVal' = r.value
        /\ special' = r.out.special
        /\ phonetic' = r.out.ph
        /\ check' = r.out.ck

(***************************************************************************)
(* Inputs                                                                  *)
(***************************************************************************)
\* The strings of exactly n characters, and of at most n, over chars.
RECURSIVE StringsOfLen(_, _)
StringsOfLen(chars, n) ==
    IF n = 0 THEN {""}
    ELSE {s \o c : s \in StringsOfLen(chars, n - 1), c \in chars}

StringsUpTo(chars, n) == UNION {StringsOfLen(chars, k) : k \in 0..n}

\* Longest content of the input when the page loads.
MaxInitialLen == 5
\* Longest argument of a direct getCheck call.
MaxCodeLen == 5
\* Longest argument of a direct getPhonetic call.
MaxRenderLen == 4

\* The keys a user types.
Keys == {"C", "A", "P", "S", "L", "Z", "O", "B", "1", "s", "+", "-", "!"}

\* The input's content when the page loads (the script filters "any data in
\* the input on the page load"): every short string over a few characters,
\* and the codes the rules name, plain, in lower case, suffixed and too long.
InitialChars == {"S", "1", "a", "+", "!"}
NamedCodes == {"SOB", "DPA", "RETS", "CA12", "CP1", "J1A", "S1A", "L12A", "Z12A", "AB12"}
InitialValues ==
    StringsUpTo(InitialChars, MaxInitialLen)
    \cup NamedCodes
    \cup {c \o "+" : c \in NamedCodes} \cup {c \o "-" : c \in NamedCodes}
    \cup {"rets", "sob", "dpa-", "ReTs", "RET+", "RET!S", "!SOB", "S!O!B", "!!!-", "LA", "Z1", "CA", "CP", "J", "L", "Z"}

\* What the two output fields show before the script has run.
InitialTexts == {"", "ZULU"}

(***************************************************************************)
(* The page                                                                *)
(***************************************************************************)
NoCall == pc = "idle" /\ arg = "" /\ arg2 = "" /\ ret = "" /\ ret2 = ""

Init ==
    /\ stage = "page"
    /\ locationVal \in InitialValues
    /\ phonetic \in InitialTexts
    /\ check \in InitialTexts
    /\ special = FALSE
    /\ NoCall

\* locationDiv.trigger('input') when the script is loaded.
Load ==
    /\ stage = "page"
    /\ stage' = "ready"
    /\ OnInput(locationVal)
    /\ UNCHANGED callVars

\* The user types key at the end of the input.
Type(key) ==
    /\ stage = "ready"
    /\ OnInput(locationVal \o key)
    /\ UNCHANGED <<stage, callVars>>

\* The user deletes the last character of the input.
Backspace ==
    /\ stage = "ready"
    /\ locationVal # ""
    /\ OnInput(SubSeq(locationVal, 1, Len(locationVal) - 1))
    /\ UNCHANGED <<stage, callVars>>

Next ==
    \/ Load
    \/ \E key \in Keys : Type(key)
    \/ Backspace

Spec == Init /\ [][Next]_vars

(***************************************************************************)
(* Direct calls of getCheck and getPhonetic                                *)
(***************************************************************************)
PageIdle ==
    /\ stage = "page"
    /\ locationVal = ""
    /\ phonetic = ""
    /\ check = ""
    /\ special = FALSE

\* The characters of getCheck's arguments.
CheckChars == {"A", "B", "K", "1", "+", "-", "a"}

\* s with its character at position p (from 1) replaced by c.
ReplaceAt(s, p, c) == SubSeq(s, 1, p - 1) \o c \o SubSeq(s, p + 1, Len(s))

\* A 4-character code is compared with the codes that differ from it in at
\* most one position.
Variants(code) ==
    IF Len(code) = 4
    THEN {ReplaceAt(code, p, c) : p \in 1..4, c \in CheckChars}
    ELSE {code}

InitCheck ==
    /\ PageIdle
    /\ pc = "call"
    /\ arg \in StringsUpTo(CheckChars, MaxCodeLen)
    /\ arg2 \in Variants(arg)
    /\ ret = ""
    /\ ret2 = ""

CallGetCheck ==
    /\ pc = "call"
    /\ ret' = getCheck(arg)
    /\ ret2' = getCheck(arg2)
    /\ pc' = "done"
    /\ UNCHANGED <<arg, arg2, pageVars>>

NextCheck == CallGetCheck

SpecCheck == InitCheck /\ [][NextCheck]_vars

\* The characters of getPhonetic's arguments: strings over a few letters and
\* digits, and every letter and digit on its own.
RenderChars == {"A", "B", "Z", "0", "9"}
RenderInputs == StringsUpTo(RenderChars, MaxRenderLen) \cup UpperChars \cup DigitChars

InitPhonetic ==
    /\ PageIdle
    /\ pc = "call"
    /\ arg \in RenderInputs
    /\ arg2 = ""
    /\ ret = ""
    /\ ret2 = ""

CallGetPhonetic ==
    /\ pc = "call"
    /\ ret' = getPhonetic(arg)
    /\ pc' = "done"
    /\ UNCHANGED <<arg, arg2, ret2, pageVars>>

NextPhonetic == CallGetPhonetic

SpecPhonetic == InitPhonetic /\ [][NextPhonetic]_vars

(***************************************************************************)
(* What the rules say, stated without the code's loops                     *)
(***************************************************************************)
LetterWords == {letters[k] : k \in 1..Len(letters)}
NumberWords == {numbers[k] : k \in 1..Len(numbers)}

\* The position (from 0) of a letter word in the alphabet.
LetterIndex(word) == (CHOOSE k \in 1..Len(letters) : letters[k] = word) - 1

\* The word of one upper case letter or digit.
WordOf(c) ==
    IF c \in DigitChars THEN numbers[CharCode(c) - CharCode("0") + 1]
    ELSE letters[CharCode(c) - CharCode("A") + 1]

\* The words of the characters of s, in order, one space between two words.
RECURSIVE Words(_)
Words(s) ==
    IF s = "" THEN ""
    ELSE IF Len(s) = 1 THEN WordOf(s)
    ELSE WordOf(SubSeq(s, 1, 1)) \o " " \o Words(Tail(s))

CountSpaces(s) == Cardinality({k \in 1..Len(s) : SubSeq(s, k, k) = " "})

\* The weighted sum of a 4-character code: weights 5, 7, 7, 3 on the
\* characters at indices 0, 1, 2, 3.
WeightedSum(code) ==
    5 * CharCode(SubSeq(code, 1, 1)) + 7 * CharCode(SubSeq(code, 2, 2))
    + 7 * CharCode(SubSeq(code, 3, 3)) + 3 * CharCode(SubSeq(code, 4, 4))

ExpectedCheck(code) ==
    IF Len(code) = 4 THEN letters[(WeightedSum(code) % 26) + 1] ELSE "NONE"

\* The positions (from 1) at which two strings of the same length differ.
Differences(a, b) == {k \in 1..Len(a) : SubSeq(a, k, k) # SubSeq(b, k, k)}

\* b is a with the code of its last character raised by one.
LastRaisedByOne(a, b) ==
    /\ Len(a) = 4 /\ Len(b) = 4
    /\ Differences(a, b) = {4}
    /\ CharCode(SubSeq(b, 4, 4)) = CharCode(SubSeq(a, 4, 4)) + 1

\* A 4-character code of the accepted alphabet: upper case letters and
\* digits, with '+' or '-' allowed in the 4th position.
AcceptedCode(code) ==
    /\ Len(code) = 4
    /\ \A k \in 1..4 :
          \/ SubSeq(code, k, k) \in UpperChars \cup DigitChars
          \/ k = 4 /\ SubSeq(code, k, k) \in {"+", "-"}

\* Two accepted codes that differ in exactly one position.
SingleError(a, b) ==
    AcceptedCode(a) /\ AcceptedCode(b) /\ Cardinality(Differences(a, b)) = 1

\* The codes of the two characters at the one position where a and b differ
\* are congruent modulo 26.
CongruentError(a, b) ==
    \A k \in Differences(a, b) :
        (CharCode(SubSeq(a, k, k)) - CharCode(SubSeq(b, k, k))) % 26 = 0

(***************************************************************************)
(* Claims about getCheck (SpecCheck)                                       *)
(***************************************************************************)
\* C1: getCheck of a 4-character code is the letter word at index
\* (5*code(c[0]) + 7*code(c[1]) + 7*code(c[2]) + 3*code(c[3])) mod 26, whatever
\* the characters; getCheck("AAAA") is ALPHA and getCheck("AAAB") is DELTA; and
\* raising the code of the last character by one moves the check 3 letters
\* forward, wrapping modulo 26.
C1_CheckIsWeightedSum ==
    pc = "done" =>
        /\ Len(arg) = 4 => ret = letters[(WeightedSum(arg) % 26) + 1]
        /\ arg = "AAAA" => ret = "ALPHA"
        /\ arg = "AAAB" => ret = "DELTA"
        /\ LastRaisedByOne(arg, arg2) =>
              LetterIndex(ret2) = (LetterIndex(ret) + 3) % 26

C1_Witness ==
    /\ pc = "done" /\ arg = "AAAA" /\ arg2 = "AAAB"
    /\ ret = "ALPHA" /\ ret2 = "DELTA"

\* C2: getCheck is "NONE" for every string whose length is not 4, and for a
\* string of length 4 it is one of the 26 letter words: one word, no digit
\* word, not "NONE", not a missing value.
C2_NoneUnlessFourChars ==
    pc = "done" =>
        /\ Len(arg) # 4 => ret = "NONE"
        /\ Len(arg) = 4 =>
              /\ ret \in LetterWords
              /\ ret \notin NumberWords \cup {"NONE", "undefined", ""}
              /\ CountSpaces(ret) = 0

C2_Witness == pc = "done" /\ Len(arg) = 5 /\ ret = "NONE"

\* C10 as stated: two accepted 4-character codes that differ in exactly one
\* position never have the same check.
C10_EverySingleErrorDetected ==
    (pc = "done" /\ SingleError(arg, arg2)) => ret # ret2

\* C10 amended: two accepted 4-character codes that differ in exactly one
\* position have the same check exactly when the codes of the two characters
\* there are congruent modulo 26.
C10_DetectedUnlessCongruent ==
    (pc = "done" /\ SingleError(arg, arg2)) =>
        ((ret = ret2) <=> CongruentError(arg, arg2))

C10_Witness ==
    /\ pc = "done" /\ arg = "AAKB" /\ arg2 = "AA1B"
    /\ SingleError(arg, arg2) /\ ret = ret2

(***************************************************************************)
(* Claims about getPhonetic (SpecPhonetic)                                 *)
(***************************************************************************)
\* C6: getPhonetic of a string of upper case letters and digits is the words
\* of its characters in order, one word per character, joined by exactly one
\* space, with no leading or trailing space; it is "" for "", "ALPHA BRAVO"
\* for "AB", and never "NONE".
C6_PhoneticIsWordsInOrder ==
    pc = "done" =>
        /\ ret = Words(arg)
        /\ CountSpaces(ret) = Max(Len(arg) - 1, 0)
        /\ ret = trim(ret)
        /\ arg = "" => ret = ""
        /\ arg = "AB" => ret = "ALPHA BRAVO"
        /\ ret # "NONE"

C6_Witness == pc = "done" /\ arg = "AB9" /\ ret = "ALPHA BRAVO NINE"

(***************************************************************************)
(* The rules of section 4.2, stated on the normalized code                 *)
(***************************************************************************)
\* The code the classifier is handed: the input's value in upper case.
Code == toUpperCase(locationVal)

Ready == stage = "ready"

LastChar(code) == IF code = "" THEN "" ELSE SubSeq(code, Len(code), Len(code))

HasSuffix(code) == LastChar(code) \in {"+", "-"}

\* The characters of code from index n (from 0) on.
From(code, n) == IF Len(code) > n THEN SubSeq(code, n + 1, Len(code)) ELSE ""

\* The characters of code at the indices a..b (from 0), those that exist.
Between(code, a, b) ==
    IF Len(code) > a THEN SubSeq(code, a + 1, Min(b + 1, Len(code))) ELSE ""

StartsWith(code, head) ==
    Len(code) >= Len(head) /\ SubSeq(code, 1, Len(head)) = head

\* The earliest rule whose predicate holds, in the order of section 4.2.
FamilyOf(code) ==
    IF HasSuffix(code) THEN "suffix"
    ELSE IF code = "SOB" THEN "SOB"
    ELSE IF code = "DPA" THEN "DPA"
    ELSE IF code = "RETS" THEN "RETS"
    ELSE IF StartsWith(code, "CA") THEN "CA"
    ELSE IF StartsWith(code, "CP") THEN "CP"
    ELSE IF StartsWith(code, "J") THEN "J"
    ELSE IF StartsWith(code, "S") THEN "S"
    ELSE IF StartsWith(code, "L") THEN "L"
    ELSE IF StartsWith(code, "Z") THEN "Z"
    ELSE "none"

\* The phonetic output of a rule other than the suffix rule.
FamilyPhonetic(family, code) ==
    CASE family = "SOB" -> "SOB"
      [] family = "DPA" -> "DPA"
      [] family = "RETS" -> "RETURNS"
      [] family = "CA" -> trim("CASH OFFICE " \o Words(From(code, 2)))
      [] family = "CP" -> trim("COLLECTION POINT " \o Words(From(code, 2)))
      [] family = "J" -> trim("JEWELLERY " \o Words(From(code, 1)))
      [] family = "S" -> trim("SECURITY " \o Words(From(code, 1)))
      [] family = "L" -> trim(Words(Between(code, 1, 2)) \o " LINBIN " \o Words(Between(code, 3, 3)))
      [] family = "Z" -> trim(Words(Between(code, 1, 2)) \o " BULK " \o Words(Between(code, 3, 3)))

SuffixWord(code) == IF LastChar(code) = "+" THEN "AFTER " ELSE "BEFORE "

\* The code without its last character.
Stripped(code) == Between(code, 0, Len(code) - 2)

RECURSIVE ExpectedPhonetic(_)
ExpectedPhonetic(code) ==
    IF FamilyOf(code) = "suffix"
    THEN SuffixWord(code) \o
         (IF FamilyOf(Stripped(code)) # "none"
          THEN ExpectedPhonetic(Stripped(code))
          ELSE Words(Stripped(code)))
    ELSE FamilyPhonetic(FamilyOf(code), code)

\* The check output of a rule: the two literal overrides, else the check of
\* the entire code.
ExpectedRuleCheck(code) ==
    CASE FamilyOf(code) = "SOB" -> "SIERRA"
      [] FamilyOf(code) = "DPA" -> "VICTOR"
      [] OTHER -> ExpectedCheck(code)

\* Texts the output fields may show when a call starts.
StaleTexts == {"", "ZULU", "SECURITY ONE"}

(***************************************************************************)
(* Claims about the page (Spec)                                            *)
(***************************************************************************)
\* C3: for a code that ends in '+' or '-', handleSpecialLocation reports a
\* match, the phonetic output is "AFTER " or "BEFORE " followed by the family
\* phonetic of the stripped prefix when the prefix matches a family and by its
\* generic rendering otherwise, and the check output is the check of the full
\* code, suffix included, never a value the recursive call wrote.
C3_SuffixRule ==
    (Ready /\ HasSuffix(Code)) =>
        /\ special
        /\ phonetic = SuffixWord(Code) \o
              (IF FamilyOf(Stripped(Code)) # "none"
               THEN ExpectedPhonetic(Stripped(Code))
               ELSE Words(Stripped(Code)))
        /\ check = ExpectedCheck(Code)
        /\ Code = "S1A+" => phonetic = "AFTER SECURITY ONE ALPHA"
        /\ Len(Code) = 4 => check \in LetterWords

C3_Witness ==
    /\ Ready /\ Code = "S1A+" /\ special
    /\ phonetic = "AFTER SECURITY ONE ALPHA" /\ check = ExpectedCheck("S1A+")

\* C4: the rules are applied in the order suffix, SOB, DPA, RETS, CA, CP, J,
\* S, L, Z and the outputs are those of the earliest rule whose predicate
\* holds: SOB gives ("SOB", "SIERRA") and not the Security output, DPA gives
\* ("DPA", "VICTOR"), RETS gives ("RETURNS", check of "RETS"), and a code that
\* ends in '+' or '-' is handled by the suffix rule whatever it starts with.
C4_FirstMatchingRuleWins ==
    Ready =>
        /\ special <=> FamilyOf(Code) # "none"
        /\ special => /\ phonetic = ExpectedPhonetic(Code)
                      /\ check = ExpectedRuleCheck(Code)
        /\ Code = "SOB" => phonetic = "SOB" /\ check = "SIERRA"
        /\ Code = "DPA" => phonetic = "DPA" /\ check = "VICTOR"
        /\ Code = "RETS" => phonetic = "RETURNS" /\ check = ExpectedCheck("RETS")
        /\ HasSuffix(Code) => SubSeq(phonetic, 1, Len(SuffixWord(Code))) = SuffixWord(Code)

C4_Witness == Ready /\ Code = "SOB" /\ phonetic = "SOB" /\ check = "SIERRA"

\* What C5 says of every prefix family but Security, whose phonetic it states
\* on its own.
C5_OtherFamilies ==
    /\ StartsWith(Code, "CA") =>
          phonetic = trim("CASH OFFICE " \o Words(From(Code, 2)))
    /\ StartsWith(Code, "CP") =>
          phonetic = trim("COLLECTION POINT " \o Words(From(Code, 2)))
    /\ StartsWith(Code, "J") =>
          phonetic = trim("JEWELLERY " \o Words(From(Code, 1)))
    /\ StartsWith(Code, "L") =>
          phonetic = trim(Words(Between(Code, 1, 2)) \o " LINBIN " \o Words(Between(Code, 3, 3)))
    /\ StartsWith(Code, "Z") =>
          phonetic = trim(Words(Between(Code, 1, 2)) \o " BULK " \o Words(Between(Code, 3, 3)))
    /\ FamilyOf(Code) \in {"CA", "CP", "J", "S", "L", "Z"} => check = ExpectedCheck(Code)
    /\ Code = "CA12" => phonetic = "CASH OFFICE ONE TWO" /\ check = ExpectedCheck("CA12")

\* The codes C5 is about.
C5_Case == Ready /\ Len(Code) <= 4 /\ ~HasSuffix(Code) /\ Code \notin {"SOB", "DPA", "RETS"}

\* C5 as stated: the Security phonetic is "SECURITY " followed by the
\* rendering of the characters from index 1, untrimmed.
C5_FamilyOutputsAsStated ==
    C5_Case =>
        /\ C5_OtherFamilies
        /\ StartsWith(Code, "S") => phonetic = "SECURITY " \o Words(From(Code, 1))

\* C5 amended: the Security phonetic is trimmed like that of every other
\* family; the rest of the claim stands: each prefix family's phonetic, and the
\* check of the entire code ("NONE" when it is shorter than 4).
C5_FamilyOutputs ==
    C5_Case =>
        /\ C5_OtherFamilies
        /\ StartsWith(Code, "S") => phonetic = trim("SECURITY " \o Words(From(Code, 1)))

C5_Witness ==
    /\ Ready /\ Code = "CA12"
    /\ phonetic = "CASH OFFICE ONE TWO" /\ check = ExpectedCheck("CA12")

\* C7: the outputs shown after an input event depend only on the code of that
\* event, not on what the fields showed before: classifying the same code
\* from any other content of the fields gives what is shown.
C7_OutputsDependOnLastInputOnly ==
    Ready =>
        \A p \in StaleTexts, c \in StaleTexts :
            classify(locationVal, p, c) = [special |-> special, ph |-> phonetic, ck |-> check]

C7_Witness == Ready /\ Code = "SOB-" /\ phonetic = "BEFORE SOB" /\ check \in LetterWords

\* C8: the code filterLocation returns has at most 4 characters, each a letter
\* or a digit, except that the 4th may be '+' or '-'; a '+' or '-' is never
\* at position 1, 2 or 3.
C8_SuffixOnlyInFourthPosition ==
    Ready =>
        /\ Len(locationVal) <= 4
        /\ \A k \in 1..Len(locationVal) :
              \/ isAlphanumeric(SubSeq(locationVal, k, k))
              \/ k = 4 /\ isPlusMinus(SubSeq(locationVal, k, k))

\* C9: for a code that matches no rule, handleSpecialLocation reports no match
\* and writes neither field, and filterLocation shows the rendering of the
\* code ("NONE" for the empty code) and its check ("NONE" unless it has 4
\* characters).
C9_NoMatchFallsBack ==
    (Ready /\ FamilyOf(Code) = "none") =>
        /\ ~special
        /\ phonetic = (IF Code = "" THEN "NONE" ELSE Words(Code))
        /\ check = ExpectedCheck(Code)
        /\ Len(Code) # 4 => check = "NONE"
        /\ \A p \in StaleTexts, c \in StaleTexts :
              handleSpecialLocation(Code, p, c) = [ret |-> FALSE, ph |-> p, ck |-> c]

C9_Witness ==
    /\ Ready /\ Code = "AB12" /\ ~special
    /\ phonetic = "ALPHA BRAVO ONE TWO" /\ check = ExpectedCheck("AB12")

====
